---- MODULE Spec2Model ----
(***************************************************************************)
(* Model of clingox.tefoli.Theory: the ctypes bridge between clingo's      *)
(* python library and a C theory library.                                  *)
(*                                                                         *)
(* The wrapper object is the state (self.__c_theory, the bound function    *)
(* attributes, the one generator frame of assignment()).  The C library    *)
(* and clingo's error channel are the environment: what they return is     *)
(* drawn with \E in each action.  `last` records what the most recent      *)
(* method invocation did: the extension calls it made, in order, and what  *)
(* it returned or raised.                                                  *)
(***************************************************************************)
EXTENDS Integers, Sequences, FiniteSets, TLC

\* ------------------------------------------------------------------ bounds
MaxHandles == 2
MaxEntries == 2
MaxThread == 1
MaxCode == 5
MaxAdds == 2

\* --------------------------------------------------------------- constants
\* self.__c_theory = None
None == 0

Handles == 1..MaxHandles
Threads == 0..MaxThread
Indices == 0..MaxEntries
\* values of the error channel: clingo._error_code() and clingo._error_message()
Codes == 0..MaxCode
NoMessage == "<None>"
Messages == {NoMessage, "msg"}

\* what find_library / the symbol lookups of __init__ can meet
Libs == {"notfound", "no_create", "no_configure", "no_rewrite", "full"}

\* the clingo_symbol_t the extension associates with an index
RawSymbol(i) == 100 + i
RawSymbols == {RawSymbol(i) : i \in Indices}

\* _c_variant.type as the extension may leave it (c_int)
Discriminants == {-1, 0, 1, 2, 3, 5}
\* _c_value: the three readings of the union's bytes
Payloads == { [integer |-> 42, double |-> 35, symbol |-> RawSymbol(1)],
              [integer |-> -7, double |-> 15, symbol |-> RawSymbol(2)] }

VARIABLES
    inited,        \* some __init__ has run on the object (self.__c_theory exists)
    obtained,      \* an __init__ returned normally: the client holds the object
    c_theory,      \* self.__c_theory: None or the handle create returned
    rewrite_fun,   \* self.__rewrite_statement: "unset", "None" or "bound"
    created,       \* number of handles the extension's create has returned
    destroy_calls, \* how often destroy was called on the handle in c_theory (2: more than once)
    valued,        \* extension: the indices that have a value in the current model
    gen,           \* the generator returned by the latest assignment() call
    last           \* the most recent method invocation

vars == <<inited, obtained, c_theory, rewrite_fun, created, destroy_calls, valued,
          gen, last>>

\* ------------------------------------------------------- error translation
Raise(k, m) == [kind |-> k, msg |-> m]
NoRaise == Raise("none", "")

\* __handle_error with the test for code 3 lost: out of memory reported as a
\* runtime error
HandleError_NoMemoryError(success, code, msg) ==
    IF success THEN NoRaise
    ELSE LET m == IF msg = NoMessage THEN "no message" ELSE msg
         IN  IF code \in {1, 2, 3, 4} THEN Raise("RuntimeError", m)
             ELSE Raise("RuntimeError", "unknow error")

\* Theory.__handle_error(success, func, arguments); msg and code are what
\* _error_message() and _error_code() return when they are asked
HandleError(success, code, msg) ==
    IF success THEN NoRaise
    ELSE LET m == IF msg = NoMessage THEN "no message" ELSE msg
         IN  IF code \in {1, 2, 4} THEN Raise("RuntimeError", m)
             ELSE IF code = 3 THEN Raise("MemoryError", m)
             ELSE Raise("RuntimeError", "unknow error")

\* Theory.__skip_error(ret, func, arguments): hands the raw return back
SkipError(ret, code, msg) == NoRaise

\* lookup_symbol bound without error=False
Policy_LookupStrict(name) ==
    IF name \in {"get_symbol", "assignment_begin", "assignment_next",
                 "assignment_has_value", "assignment_get_value"}
    THEN "skip" ELSE "strict"

\* the error argument of each self.__fun(...) binding in __init__
Policy(name) ==
    IF name \in {"lookup_symbol", "get_symbol", "assignment_begin", "assignment_next",
                 "assignment_has_value", "assignment_get_value"}
    THEN "skip" ELSE "strict"

\* ret.errcheck as __fun installs it, applied to a return of the C function
ErrCheck(name, ret, code, msg) ==
    IF Policy(name) = "strict" THEN HandleError(ret, code, msg)
    ELSE SkipError(ret, code, msg)

\* ----------------------------------------------------------- observations
NoResult == [kind |-> "None", val |-> 0]
Value(k, v) == [kind |-> k, val |-> v]
\* c_value = _c_variant(): ctypes zero-fills
ZeroVariant == [type |-> 0, value |-> [integer |-> 0, double |-> 0, symbol |-> 0]]
Variants == [type : Discriminants, value : Payloads]

ExtCall(fn, h, t, i) == [fn |-> fn, h |-> h, t |-> t, i |-> i]

Obs(op) ==
    [op |-> op, calls |-> <<>>, ret |-> TRUE, code |-> 0, msg |-> NoMessage,
     raised |-> NoRaise, result |-> NoResult, symbol |-> 0, yielded |-> FALSE,
     adds |-> <<>>, tramp |-> <<>>, variant |-> ZeroVariant, out |-> 0]

\* what a Strict C function can return, with the error channel as read after
\* a failure (it is not read after a success)
StrictReturns ==
    {[ret |-> TRUE, code |-> 0, msg |-> NoMessage]} \cup
    {[ret |-> FALSE, code |-> c, msg |-> m] : c \in Codes, m \in Messages}

\* one call of a Strict function with no further effect on the wrapper
StrictObs(op, fn, h, r) ==
    [Obs(op) EXCEPT !.calls = <<ExtCall(fn, h, 0, 0)>>, !.ret = r.ret,
                    !.code = r.code, !.msg = r.msg,
                    !.raised = ErrCheck(fn, r.ret, r.code, r.msg)]

NoGen == [pc |-> "none", thread |-> 0, cursor |-> 0, begins |-> 0]

\* the client is between two method invocations
Idle == last.op = "idle"

Init ==
    /\ inited = FALSE
    /\ obtained = FALSE
    /\ c_theory = None
    /\ rewrite_fun = "unset"
    /\ created = 0
    /\ destroy_calls = 0
    /\ valued = {}
    /\ gen = NoGen
    /\ last = Obs("idle")

\* --------------------------------------------------------------- lifecycle
\* self.__rewrite_statement after the bindings of __init__ that lib allows
RewriteBinding(lib, old) ==
    CASE lib \in {"notfound", "no_create"} -> old
      [] lib = "no_rewrite" -> "None"
      [] OTHER -> "bound"

\* Theory.__init__(prefix, lib)
Construct ==
    /\ Idle
    /\ created < MaxHandles
    /\ \E lib \in Libs :
        /\ inited' = TRUE
        /\ rewrite_fun' = RewriteBinding(lib, rewrite_fun)
        /\ destroy_calls' = 0
        /\ UNCHANGED <<valued, gen>>
        /\ IF lib = "notfound"
           THEN /\ c_theory' = None
                /\ last' = [Obs("init") EXCEPT
                               !.raised = Raise("RuntimeError", "could not find library")]
                /\ UNCHANGED <<obtained, created>>
           ELSE IF lib \in {"no_create", "no_configure"}
           THEN /\ c_theory' = None
                /\ last' = [Obs("init") EXCEPT !.raised = Raise("AttributeError", "")]
                /\ UNCHANGED <<obtained, created>>
           ELSE \E r \in StrictReturns :
                /\ last' = StrictObs("init", "create", None, r)
                /\ IF r.ret
                   THEN /\ c_theory' = created + 1
                        /\ created' = created + 1
                        /\ obtained' = TRUE
                   ELSE /\ c_theory' = None
                        /\ UNCHANGED <<obtained, created>>

\* self.__c_theory after the call of destroy in __del__
AfterDestroy(h, raised) == IF raised.kind = "none" THEN None ELSE h

\* Theory.__del__()
Del ==
    /\ Idle
    /\ inited
    /\ IF c_theory = None
       THEN /\ last' = Obs("del")
            /\ UNCHANGED <<c_theory, destroy_calls>>
       ELSE \E r \in StrictReturns :
            LET o == StrictObs("del", "destroy", c_theory, r)
            IN  /\ last' = o
                /\ destroy_calls' = (IF destroy_calls = 0 THEN 1 ELSE 2)
                /\ c_theory' = AfterDestroy(c_theory, o.raised)
    /\ UNCHANGED <<inited, obtained, rewrite_fun, created, valued, gen>>

StrictNames ==
    {"configure", "register", "prepare", "register_options", "validate_options",
     "on_model", "on_statistics"}

\* Theory.configure, register, prepare, register_options, validate_options,
\* on_model, on_statistics: one call of the bound function on self.__c_theory
StrictOp ==
    /\ Idle
    /\ obtained
    /\ \E name \in StrictNames, r \in StrictReturns :
        last' = StrictObs(name, name, c_theory, r)
    /\ UNCHANGED <<inited, obtained, c_theory, rewrite_fun, created, destroy_calls,
                   valued, gen>>

\* the host engine finds another model: the extension's assignment changes
NewModel ==
    /\ Idle
    /\ \E v \in SUBSET (1..MaxEntries) :
        /\ v # valued
        /\ valued' = v
    /\ UNCHANGED <<inited, obtained, c_theory, rewrite_fun, created, destroy_calls,
                   gen, last>>

\* the invocation returns (or its exception propagates) to the client
Return ==
    /\ ~Idle
    /\ last' = Obs("idle")
    /\ UNCHANGED <<inited, obtained, c_theory, rewrite_fun, created, destroy_calls,
                   valued, gen>>

\* ------------------------------------------------------- rewrite_statement
\* py_add that swallows the exception of add and reports success
PyAdd_SwallowFailure(addRaises) == TRUE

\* py_add(stm, data): what the trampoline returns to the extension when the
\* call of add raises (bare except) or returns
PyAdd(addRaises) == IF addRaises THEN FALSE ELSE TRUE

\* the outcomes of add over the trampoline invocations the extension makes
\* during one call of rewrite_statement (TRUE: add raised)
AddRuns == UNION {[1..n -> BOOLEAN] : n \in 0..MaxAdds}

\* Theory.rewrite_statement(stm, add)
RewriteStatement ==
    /\ Idle
    /\ obtained
    /\ IF rewrite_fun = "None"
       THEN last' = [Obs("rewrite_statement") EXCEPT
                        !.raised = Raise("TypeError", "'NoneType' object is not callable")]
       ELSE \E adds \in AddRuns, r \in StrictReturns :
            last' = [StrictObs("rewrite_statement", "rewrite_statement", c_theory, r)
                        EXCEPT !.adds = adds,
                               !.tramp = [k \in 1..Len(adds) |-> PyAdd(adds[k])]]
    /\ UNCHANGED <<inited, obtained, c_theory, rewrite_fun, created, destroy_calls,
                   valued, gen>>

\* ------------------------------------------------------------ pass-through
\* what errcheck makes of a return of C function name, over every content of
\* the error channel
Raises(name, ret) == {ErrCheck(name, ret, c, m) : c \in Codes, m \in Messages}

\* what errcheck receives from a C function bound with restype None: None,
\* which `not success` reads as a failure
VoidRet == FALSE

\* the symbol the extension returns for an index (any symbol for an index it
\* never handed out)
ExtSymbols(i) == IF i \in 1..MaxEntries THEN {RawSymbol(i)} ELSE RawSymbols

\* Theory.lookup_symbol: c_index = c_size_t(); the value returned
LookupResult(found, c_index) == IF found THEN Value("Index", c_index) ELSE NoResult

\* Theory.lookup_symbol(symbol)
LookupSymbol ==
    /\ Idle
    /\ obtained
    /\ \E sym \in RawSymbols, found \in BOOLEAN, written \in Indices :
        \E e \in Raises("lookup_symbol", found) :
            last' = [Obs("lookup_symbol") EXCEPT
                        !.calls = <<ExtCall("lookup_symbol", c_theory, 0, sym)>>,
                        !.ret = found, !.out = written, !.raised = e,
                        !.result = IF e.kind = "none" THEN LookupResult(found, written)
                                   ELSE NoResult]
    /\ UNCHANGED <<inited, obtained, c_theory, rewrite_fun, created, destroy_calls,
                   valued, gen>>

\* Theory.get_symbol(index)
GetSymbol ==
    /\ Idle
    /\ obtained
    /\ \E i \in Indices : \E raw \in ExtSymbols(i) : \E e \in Raises("get_symbol", TRUE) :
        last' = [Obs("get_symbol") EXCEPT
                    !.calls = <<ExtCall("get_symbol", c_theory, 0, i)>>,
                    !.raised = e,
                    !.result = IF e.kind = "none" THEN Value("Symbol", raw) ELSE NoResult]
    /\ UNCHANGED <<inited, obtained, c_theory, rewrite_fun, created, destroy_calls,
                   valued, gen>>

\* Theory.has_value(thread_id, index)
HasValue ==
    /\ Idle
    /\ obtained
    /\ \E t \in Threads, i \in Indices : \E e \in Raises("assignment_has_value", i \in valued) :
        last' = [Obs("has_value") EXCEPT
                    !.calls = <<ExtCall("assignment_has_value", c_theory, t, i)>>,
                    !.ret = (i \in valued), !.raised = e,
                    !.result = IF e.kind = "none"
                               THEN Value("Bool", IF i \in valued THEN 1 ELSE 0)
                               ELSE NoResult]
    /\ UNCHANGED <<inited, obtained, c_theory, rewrite_fun, created, destroy_calls,
                   valued, gen>>

\* get_value without its final raise: every discriminant but 0 and 1 read as a
\* symbol
Decode_NoFinalRaise(v) ==
    IF v.type = 0 THEN [raised |-> NoRaise, result |-> [kind |-> "Integer", val |-> v.value.integer]]
    ELSE IF v.type = 1 THEN [raised |-> NoRaise, result |-> [kind |-> "Double", val |-> v.value.double]]
    ELSE [raised |-> NoRaise, result |-> [kind |-> "Symbol", val |-> v.value.symbol]]

\* Theory.get_value: the decoding of c_value after the extension filled it
Decode(v) ==
    IF v.type = 0 THEN [raised |-> NoRaise, result |-> Value("Integer", v.value.integer)]
    ELSE IF v.type = 1 THEN [raised |-> NoRaise, result |-> Value("Double", v.value.double)]
    ELSE IF v.type = 2 THEN [raised |-> NoRaise, result |-> Value("Symbol", v.value.symbol)]
    ELSE [raised |-> Raise("RuntimeError", "must not happen"), result |-> NoResult]

\* what the extension can leave in the variant: any content, or nothing at all
Filled == Variants \cup {ZeroVariant}

\* Theory.get_value(thread_id, index)
GetValue ==
    /\ Idle
    /\ obtained
    /\ \E t \in Threads, i \in Indices, v \in Filled :
        \E e \in Raises("assignment_get_value", VoidRet) :
            LET d == Decode(v)
            IN  last' = [Obs("get_value") EXCEPT
                            !.calls = <<ExtCall("assignment_get_value", c_theory, t, i)>>,
                            !.variant = v,
                            !.raised = IF e.kind = "none" THEN d.raised ELSE e,
                            !.result = IF e.kind = "none" THEN d.result ELSE NoResult]
    /\ UNCHANGED <<inited, obtained, c_theory, rewrite_fun, created, destroy_calls,
                   valued, gen>>

\* -------------------------------------------------------------- assignment
\* the extension's assignment_next from cursor c, for an extension that holds
\* the entries 1..MaxEntries: it moves the cursor forward to a later entry
\* (which one is the extension's choice) and returns true, or returns false
ExtNext(c) ==
    {[has |-> TRUE, index |-> j] : j \in (c + 1)..MaxEntries} \cup
    {[has |-> FALSE, index |-> c]}

\* assignment_next given a copy of c_index: what it writes is lost
NextCursor_ByValue(c_index, written) == c_index

\* c_index after assignment_next wrote through byref(c_index)
NextCursor(c_index, written) == written

\* assignment_begin moved into the loop: issued on every resumption
StepCalls_BeginInLoop(first, h, t, c0, cur, has) ==
    <<[fn |-> "assignment_begin", h |-> h, t |-> t, i |-> 0],
      [fn |-> "assignment_next", h |-> h, t |-> t, i |-> c0]>>
    \o (IF has THEN <<[fn |-> "get_symbol", h |-> h, t |-> 0, i |-> cur],
                      [fn |-> "assignment_get_value", h |-> h, t |-> t, i |-> cur]>>
        ELSE <<>>)

\* the extension calls of one resumption of the generator, in order: the
\* frame's first resumption starts with assignment_begin; cur is c_index after
\* assignment_next, which returned has
StepCalls(first, h, t, c0, cur, has) ==
    (IF first THEN <<ExtCall("assignment_begin", h, t, 0)>> ELSE <<>>)
    \o <<ExtCall("assignment_next", h, t, c0)>>
    \o (IF has THEN <<ExtCall("get_symbol", h, 0, cur),
                      ExtCall("assignment_get_value", h, t, cur)>>
        ELSE <<>>)

\* Theory.assignment(thread_id): the call only makes the generator
Assignment ==
    /\ Idle
    /\ obtained
    /\ gen.pc # "suspended"
    /\ \E t \in Threads :
        gen' = [pc |-> "created", thread |-> t, cursor |-> 0, begins |-> 0]
    /\ last' = Obs("assignment")
    /\ UNCHANGED <<inited, obtained, c_theory, rewrite_fun, created, destroy_calls, valued>>

\* Theory.assignment(thread_id) while the earlier generator is suspended at a
\* yield: the client drops that one and traverses anew
Restart ==
    /\ Idle
    /\ obtained
    /\ gen.pc = "suspended"
    /\ \E t \in Threads :
        gen' = [pc |-> "created", thread |-> t, cursor |-> 0, begins |-> 0]
    /\ last' = Obs("assignment")
    /\ UNCHANGED <<inited, obtained, c_theory, rewrite_fun, created, destroy_calls, valued>>

\* next() on the generator: the body of Theory.assignment runs to its next
\* yield, to its end, or to an exception
GenNext ==
    /\ Idle
    /\ obtained
    /\ gen.pc \in {"created", "suspended"}
    /\ LET first == gen.pc = "created"
           t == gen.thread
           c0 == IF first THEN 0 ELSE gen.cursor
       IN  \E nx \in ExtNext(c0), v \in Filled :
           LET cur == NextCursor(c0, nx.index)
               d == Decode(v)
               plan == StepCalls(first, c_theory, t, c0, cur, nx.has)
           IN  \E eb \in Raises("assignment_begin", VoidRet),
                  en \in Raises("assignment_next", nx.has),
                  es \in Raises("get_symbol", TRUE),
                  ev \in Raises("assignment_get_value", VoidRet) :
               LET \* what each call of the plan raises
                   RaisedBy(c) ==
                       CASE c.fn = "assignment_begin" -> eb
                         [] c.fn = "assignment_next" -> en
                         [] c.fn = "get_symbol" -> es
                         [] OTHER -> IF ev.kind = "none" THEN d.raised ELSE ev
                   bad == {k \in 1..Len(plan) : RaisedBy(plan[k]).kind # "none"}
                   stop == IF bad = {} THEN Len(plan)
                           ELSE CHOOSE k \in bad : \A j \in bad : k <= j
                   done == [k \in 1..stop |-> plan[k]]
                   nb == Cardinality({k \in 1..stop : plan[k].fn = "assignment_begin"})
                   begun == IF gen.begins + nb > 1 THEN 2 ELSE gen.begins + nb
               IN  \E raw \in ExtSymbols(cur) :
                      IF bad # {}
                      THEN /\ gen' = [pc |-> "failed", thread |-> 0, cursor |-> 0, begins |-> begun]
                           /\ last' = [Obs("next") EXCEPT !.calls = done, !.ret = nx.has, !.out = cur,
                                          !.variant = IF nx.has THEN v ELSE ZeroVariant,
                                          !.raised = RaisedBy(plan[stop])]
                      ELSE IF nx.has
                      THEN /\ gen' = [pc |-> "suspended", thread |-> t, cursor |-> cur, begins |-> begun]
                           /\ last' = [Obs("next") EXCEPT !.calls = done, !.ret = TRUE, !.out = cur,
                                          !.variant = v, !.yielded = TRUE,
                                          !.symbol = raw, !.result = d.result]
                      ELSE /\ gen' = [pc |-> "exhausted", thread |-> 0, cursor |-> 0, begins |-> begun]
                           /\ last' = [Obs("next") EXCEPT !.calls = done, !.ret = FALSE, !.out = cur,
                                          !.raised = Raise("StopIteration", "")]
    /\ UNCHANGED <<inited, obtained, c_theory, rewrite_fun, created, destroy_calls,
                   valued>>

\* next() on a generator that has ended: StopIteration, the body does not run
GenNextEnded ==
    /\ Idle
    /\ obtained
    /\ gen.pc \in {"exhausted", "failed"}
    /\ last' = [Obs("next") EXCEPT !.raised = Raise("StopIteration", "")]
    /\ UNCHANGED <<inited, obtained, c_theory, rewrite_fun, created, destroy_calls,
                   valued, gen>>

Next ==
    \/ Construct
    \/ Del
    \/ StrictOp
    \/ NewModel
    \/ Return
    \/ RewriteStatement
    \/ LookupSymbol
    \/ GetSymbol
    \/ HasValue
    \/ GetValue
    \/ Assignment
    \/ Restart
    \/ GenNext
    \/ GenNextEnded

Spec == Init /\ [][Next]_vars

\* A client that constructs the theory and consumes every traversal it starts
\* to its end (no Restart), while the host engine finds models: the consumer
\* keeps asking for the next element, and every invocation returns.  The
\* actions left out change neither gen nor valued.
IterNext ==
    \/ Construct
    \/ NewModel
    \/ Return
    \/ Assignment
    \/ GenNext
    \/ GenNextEnded

FairSpec == Init /\ [][IterNext]_vars /\ SF_vars(GenNext) /\ WF_vars(Return)

\* ================================================================== claims
\* the positions of the calls of C function fn in the latest invocation
CallsOf(fn) == {k \in 1..Len(last.calls) : last.calls[k].fn = fn}
\* the functions __init__ binds with the default error=True
StrictFunctions == StrictNames \cup {"create", "destroy", "rewrite_statement"}
StrictCalled == \E k \in 1..Len(last.calls) : last.calls[k].fn \in StrictFunctions

\* C1: a Strict function that returns success raises nothing; one that
\* returns failure raises by the last error code alone: 1, 2 and 4 a
\* RuntimeError with the last message, 3 a MemoryError with the last message,
\* any other code the unclassified RuntimeError("unknow error"); a missing
\* message is carried as "no message".
C1_StrictErrorMapping ==
    StrictCalled =>
        LET carried == IF last.msg = NoMessage THEN "no message" ELSE last.msg
        IN  /\ last.ret => last.raised.kind = "none"
            /\ (~last.ret /\ last.code \in {1, 2, 4}) =>
                   (last.raised.kind = "RuntimeError" /\ last.raised.msg = carried)
            /\ (~last.ret /\ last.code = 3) =>
                   (last.raised.kind = "MemoryError" /\ last.raised.msg = carried)
            /\ (~last.ret /\ last.code \notin {1, 2, 3, 4}) =>
                   (last.raised.kind = "RuntimeError" /\ last.raised.msg = "unknow error")

\* on_model fails with code 3 and no message: MemoryError("no message")
C1_Witness ==
    /\ last.op = "on_model"
    /\ ~last.ret /\ last.code = 3 /\ last.msg = NoMessage
    /\ last.raised.kind = "MemoryError" /\ last.raised.msg = "no message"

\* C2: destroy is called at most once on a handle create returned, and a
\* teardown of a wrapper that holds no handle (already destroyed, or never
\* created) calls nothing.
C2_DestroyAtMostOnce ==
    /\ destroy_calls <= 1
    /\ \A k \in CallsOf("destroy") : last.calls[k].h \in Handles

\* C3: once the wrapper's handle has been destroyed (destroy was called on it
\* and returned success, so the wrapper holds None), no operation of the
\* bridge calls the extension: the only call seen in such a state is that
\* destroy itself.
C3_NoCallAfterDestroy ==
    (destroy_calls >= 1 /\ c_theory = None) =>
        \A k \in 1..Len(last.calls) : last.calls[k].fn = "destroy"

\* C4: a traversal calls get_value only on an index for which the extension
\* reports a value.
C4_GetValueOnlyWhereHasValue ==
    last.op = "next" =>
        \A k \in CallsOf("assignment_get_value") : last.calls[k].i \in valued

\* C5: get_value decodes by the discriminant alone: 0 the integer payload, 1
\* the double payload, 2 the symbol payload; any other discriminant raises
\* RuntimeError("must not happen") and yields no value.
C5_DecodeByDiscriminant ==
    (CallsOf("assignment_get_value") # {}) =>
        LET v == last.variant
        IN  /\ v.type = 0 => (last.raised.kind = "none"
                              /\ last.result = [kind |-> "Integer", val |-> v.value.integer])
            /\ v.type = 1 => (last.raised.kind = "none"
                              /\ last.result = [kind |-> "Double", val |-> v.value.double])
            /\ v.type = 2 => (last.raised.kind = "none"
                              /\ last.result = [kind |-> "Symbol", val |-> v.value.symbol])
            /\ v.type \notin {0, 1, 2} =>
                   /\ last.raised = [kind |-> "RuntimeError", msg |-> "must not happen"]
                   /\ last.result.kind = "None"
                   /\ ~last.yielded

\* get_value meets discriminant 5 and raises
C5_Witness ==
    /\ last.op = "get_value"
    /\ last.variant.type = 5
    /\ last.raised.kind = "RuntimeError"

\* the trampoline invocations of the latest rewrite_statement in which add
\* raised, and those that reported failure to the extension
AddRaisedAt == {k \in 1..Len(last.adds) : last.adds[k]}
ReportedFailureAt == {k \in 1..Len(last.tramp) : ~last.tramp[k]}

\* C6 as stated: when add raises, the trampoline reports failure exactly once
\* and rewrite_statement raises a RuntimeError.
C6_FailureOnceAndRuntimeError ==
    (last.op = "rewrite_statement" /\ AddRaisedAt # {}) =>
        /\ Cardinality(ReportedFailureAt) = 1
        /\ last.raised.kind = "RuntimeError"

\* C6 amended: the trampoline reports failure to the extension in exactly the
\* invocations in which add raised; what rewrite_statement raises is decided
\* by the extension's return alone: nothing on success, on failure a
\* MemoryError when the last error code is 3 and a RuntimeError otherwise.
C6_FailureReportedPerRaise ==
    (last.op = "rewrite_statement" /\ last.calls # <<>>) =>
        /\ Len(last.tramp) = Len(last.adds)
        /\ ReportedFailureAt = AddRaisedAt
        /\ last.raised.kind = (IF last.ret THEN "none"
                               ELSE IF last.code = 3 THEN "MemoryError"
                               ELSE "RuntimeError")

\* add raises in the only trampoline invocation, the extension returns
\* failure, rewrite_statement raises RuntimeError
C6_Witness ==
    /\ last.op = "rewrite_statement"
    /\ last.adds = <<TRUE>> /\ last.tramp = <<FALSE>>
    /\ ~last.ret /\ last.raised.kind = "RuntimeError"

\* C7: the pass-through operations raise nothing whatever the extension
\* returns (get_value and a traversal raise only for a discriminant outside
\* {0,1,2}); lookup_symbol returns the index the extension wrote when it
\* reports found and None when it reports not found.
C7_PassThroughNeverRaises ==
    /\ last.op \in {"lookup_symbol", "get_symbol", "has_value"} => last.raised.kind = "none"
    /\ last.op = "lookup_symbol" =>
           last.result = (IF last.ret THEN [kind |-> "Index", val |-> last.out]
                          ELSE [kind |-> "None", val |-> 0])
    /\ (last.op = "get_value" /\ last.raised.kind # "none") =>
           last.variant.type \notin {0, 1, 2}
    /\ (last.op = "next" /\ last.raised.kind \notin {"none", "StopIteration"}) =>
           (CallsOf("assignment_get_value") # {} /\ last.variant.type \notin {0, 1, 2})

\* lookup_symbol: the extension reports not found, the result is None
C7_Witness ==
    /\ last.op = "lookup_symbol"
    /\ ~last.ret
    /\ last.result.kind = "None" /\ last.raised.kind = "none"

\* C8: with <prefix>_rewrite_statement missing, construction calls create and
\* holds the handle when create succeeds, and rewrite_statement is a no-op:
\* it raises nothing, calls nothing and never invokes add.
C8_MissingRewriteIsNoOp ==
    /\ (last.op = "init" /\ rewrite_fun = "None" /\ CallsOf("create") # {} /\ last.ret) =>
           c_theory \in Handles
    /\ (last.op = "rewrite_statement" /\ rewrite_fun = "None") =>
           (last.raised.kind = "none" /\ last.calls = <<>> /\ last.adds = <<>>)

\* C9: a traversal that is consumed terminates: the generator that was made
\* or is suspended at a yield ends, by assignment_next returning false or by
\* get_value raising.
C9_TraversalTerminates ==
    (gen.pc \in {"created", "suspended"}) ~> (gen.pc \in {"exhausted", "failed"})

\* a traversal got to the last entry and assignment_next then returned false
C9_Witness ==
    /\ gen.pc = "exhausted"
    /\ last.op = "next"
    /\ \E k \in CallsOf("assignment_next") : last.calls[k].i = MaxEntries

\* what C10 says of every resumption but the yield
C10_Order ==
    /\ last.op = "assignment" => (last.calls = <<>> /\ gen.pc = "created" /\ gen.begins = 0)
    /\ gen.pc \in {"suspended", "exhausted", "failed"} => gen.begins = 1
    /\ (last.op = "next" /\ last.calls = <<>>) =>
           (gen.pc \in {"exhausted", "failed"} /\ last.raised.kind = "StopIteration")
    /\ (last.op = "next" /\ last.calls # <<>>) =>
           LET c == last.calls
               n == IF c[1].fn = "assignment_begin" THEN 2 ELSE 1
           IN  /\ CallsOf("assignment_begin") \subseteq {1}
               /\ CallsOf("assignment_next") = {n}
               /\ c[1].fn = "assignment_begin" => c[n].i = 0
               /\ \A k \in 1..Len(c) : c[k].h = c[1].h
               /\ IF last.ret
                  THEN /\ Len(c) = n + 2
                       /\ c[n + 1] = [fn |-> "get_symbol", h |-> c[n].h, t |-> 0, i |-> last.out]
                       /\ c[n + 2] = [fn |-> "assignment_get_value", h |-> c[n].h,
                                      t |-> c[n].t, i |-> last.out]
                       /\ last.out > c[n].i
                  ELSE /\ Len(c) = n
                       /\ gen.pc = "exhausted"
                       /\ ~last.yielded

\* C10 as stated: begin once and first, then next; every next that returns
\* true is followed by one get_symbol, one get_value and one yielded pair;
\* the first false ends the traversal; nothing is called before the first
\* element is asked for.
C10_EveryTrueNextYields ==
    /\ C10_Order
    /\ (last.op = "next" /\ last.calls # <<>> /\ last.ret) =>
           (last.yielded /\ gen.pc = "suspended" /\ gen.cursor = last.out)

\* C10 amended: as stated, but a next that returns true is followed by the
\* yielded pair only when get_value meets a discriminant in {0,1,2}; with any
\* other the traversal ends there with get_value's RuntimeError, no pair is
\* yielded and no extension call follows.
C10_TrueNextYieldsUnlessDecodeFails ==
    /\ C10_Order
    /\ (last.op = "next" /\ last.calls # <<>> /\ last.ret) =>
           IF last.variant.type \in {0, 1, 2}
           THEN last.yielded /\ gen.pc = "suspended" /\ gen.cursor = last.out
           ELSE ~last.yielded /\ gen.pc = "failed" /\ last.raised.kind = "RuntimeError"

\* a later resumption of a traversal: next moves from entry 1 to entry 2,
\* get_symbol and get_value are called on 2, and the pair is yielded
C10_Witness ==
    /\ last.op = "next"
    /\ Len(last.calls) = 3
    /\ last.calls[1] = [fn |-> "assignment_next", h |-> c_theory, t |-> gen.thread, i |-> 1]
    /\ last.calls[3].i = 2
    /\ last.yielded

====
